---- MODULE Spec2Model ----
(***************************************************************************)
(* CircularBuffer<T>: a single-producer / single-consumer ring buffer with *)
(* two views (CircularBufferProducer, CircularBufferConsumer), modelled    *)
(* from circular_buffer.h and the clients in test.cc.                      *)
(*                                                                         *)
(* Specifications:                                                         *)
(*   Spec          one client thread, whole method calls, push guarded by  *)
(*                 !filled() and pop by !empty() (the fixture tests)       *)
(*   SpecUnguarded the same client calling push and pop without the checks *)
(*   SpecViews     several callers contending for the two views           *)
(*   SpecMT        producer and consumer threads of MULTITHREAD_2, one     *)
(*                 atomic load / store per step                            *)
(***************************************************************************)
EXTENDS Integers, Sequences, FiniteSets, TLC

\* ------------------------------------------------------------------ bounds

\* Largest queue_size handed to the constructor.
MaxQueueSize == 3
\* How many negative queue_size arguments are tried (-1, -2, ...).
MaxNeg == 2
\* Items are 0..MaxVal.
MaxVal == 1
\* Pushes per run of the single-client specifications.
MaxPush == 4
\* Calls of push on a full or pop on an empty buffer per run of SpecUnguarded.
MaxMisuse == 1
\* Pushes per run of SpecViews.
MaxViewPush == 2
\* Callers contending for views in SpecViews.
NumCallers == 2
\* N of MULTITHREAD_2: the producer pushes 0..NItems-1.
NItems == 6

\* ------------------------------------------------------- program constants

\* T(): the value std::vector<T>(n) gives every slot (0 for int).
Default == 0
\* The null pointer front() returns; slots are named by their index >= 0.
NULL == -1

Values == 0..MaxVal
QueueSizes == (0 - MaxNeg)..MaxQueueSize
PositiveQueueSizes == 1..MaxQueueSize

VARIABLES
  obj,           \* "none" | "live" | "threw" | "ub": the CircularBuffer object
  requested,     \* the constructor's argument queue_size (NULL before the call)
  size,          \* const int64_t size
  data,          \* std::vector<T> data: slot index -> value
  head,          \* std::atomic<int64_t> head
  tail,          \* std::atomic<int64_t> tail
  has_producer,  \* std::atomic_bool has_producer
  has_consumer,  \* std::atomic_bool has_consumer
  pc,            \* caller -> "idle" | "spinP" | "spinC" (inside a view constructor)
  holds,         \* caller -> set of live views it owns, subset of {"P", "C"}
  ret,           \* the last call made and what it returned
  pushed,        \* history: the items given to push, in call order
  popped,        \* history: the values pop returned, in call order
  unread,        \* history: slots written by push and not yet read by pop
  misused,       \* history: calls of push when filled() or pop when empty()
  clients,       \* the callers of the run
  tpc,           \* SpecMT: thread -> program counter
  loc            \* SpecMT: thread -> its local variables

bufvars == <<obj, requested, size, data, head, tail, has_producer, has_consumer>>
callvars == <<pc, holds, ret>>
histvars == <<pushed, popped, unread, misused>>
mtvars == <<tpc, loc>>
vars == <<bufvars, callvars, histvars, clients, mtvars>>

\* ------------------------------------------------------- pure computations

\* Mutant of NextIndex: the cursor is advanced without the modulo.
NextIndexNoWrap(i, sz) == i + 1

\* (i + 1) % buf->size of push and pop.
NextIndex(i, sz) == (i + 1) % sz

\* Mutant of ProducerSizeOf: the tail < head branch is missing.
ProducerSizeNoWrap(h, t, sz) == t - h

\* CircularBufferProducer::size() on the two loaded cursors.
ProducerSizeOf(h, t, sz) == IF t >= h THEN t - h ELSE t + sz - h

\* Mutant of FilledOf: the reserved slot is forgotten (size() == buf->size).
FilledOffByOne(h, t, sz) == ProducerSizeOf(h, t, sz) = sz

\* CircularBufferProducer::filled() on the two loaded cursors.
FilledOf(h, t, sz) == ProducerSizeOf(h, t, sz) + 1 = sz

\* Mutant of ConsumerSizeOf: the tail < head branch is missing.
ConsumerSizeNoWrap(h, t, sz) == t - h

\* Mutant of ConsumerSizeOf: tail > head in place of tail >= head.
ConsumerSizeStrict(h, t, sz) == IF t > h THEN t - h ELSE t + sz - h

\* CircularBufferConsumer::size() on the two loaded cursors.
ConsumerSizeOf(h, t, sz) == IF t >= h THEN t - h ELSE t + sz - h

\* Mutant of EmptyOf: a single stored item is still reported as empty.
EmptyBelowTwo(h, t, sz) == ConsumerSizeOf(h, t, sz) <= 1

\* CircularBufferConsumer::empty() on the two loaded cursors.
EmptyOf(h, t, sz) == ConsumerSizeOf(h, t, sz) = 0

\* Mutant of FrontOf: the head == tail test is missing.
FrontNoCheck(h, t) == h

\* Mutant of FrontOf: the reference is to the slot at tail.
FrontAtTail(h, t) == IF h = t THEN NULL ELSE t

\* CircularBufferConsumer::front() on the two loaded cursors: &buf->data[head].
FrontOf(h, t) == IF h = t THEN NULL ELSE h

\* Mutant of WriteSlot: the item is not stored.
WriteSlotDropped(d, i, item) == d

\* buf->data[tail] = std::move(item) of push.
WriteSlot(d, i, item) == [d EXCEPT ![i] = item]

\* Mutant of PopSlot: the cursor is advanced before the slot is read.
PopSlotAdvanced(h, sz) == (h + 1) % sz

\* The slot pop() moves its result out of: buf->data[head].
PopSlot(h, sz) == h

\* The states std::move may leave a slot in: untouched (a trivially copyable
\* T such as int) or emptied to T() (a T with a real move constructor).
MovedFrom(v) == {v, Default}

\* What each method returns when called by one thread in the current state.
ProducerSize == ProducerSizeOf(head, tail, size)
filled == FilledOf(head, tail, size)
ConsumerSize == ConsumerSizeOf(head, tail, size)
empty == EmptyOf(head, tail, size)
front == FrontOf(head, tail)

Capacity == size - 1

\* ---------------------------------------------------------- construction

NoCall == [op |-> "none", val |-> NULL]

InitCommon ==
  /\ obj = "none" /\ requested = NULL
  /\ size = 0 /\ data = <<>> /\ head = 0 /\ tail = 0
  /\ has_producer = FALSE /\ has_consumer = FALSE
  /\ ret = NoCall
  /\ pushed = <<>> /\ popped = <<>> /\ unread = {} /\ misused = 0

NoThreads ==
  /\ tpc = [t \in {"producer", "consumer"} |-> "off"]
  /\ loc = [t \in {"producer", "consumer"} |-> [h |-> 0, t |-> 0, k |-> 0, r |-> NULL]]

\* Mutant of Construct: has_consumer starts out claimed.
ConstructClaimed(q) ==
  /\ obj = "none"
  /\ requested' = q
  /\ IF q + 1 < 0
       THEN /\ obj' = "threw"
            /\ UNCHANGED <<size, data, head, tail, has_producer, has_consumer>>
       ELSE /\ obj' = "live"
            /\ size' = q + 1
            /\ data' = [i \in 0..q |-> Default]
            /\ head' = 0
            /\ tail' = 0
            /\ has_producer' = FALSE
            /\ has_consumer' = TRUE
  /\ UNCHANGED <<callvars, histvars, clients, mtvars>>

\* CircularBuffer(int64_t queue_size). std::vector<T>(n) takes n as size_t: a
\* negative queue_size + 1 converts to a count above max_size() and the vector
\* constructor throws std::length_error; every other argument is accepted.
Construct(q) ==
  /\ obj = "none"
  /\ requested' = q
  /\ IF q + 1 < 0
       THEN /\ obj' = "threw"
            /\ UNCHANGED <<size, data, head, tail, has_producer, has_consumer>>
       ELSE /\ obj' = "live"
            /\ size' = q + 1
            /\ data' = [i \in 0..q |-> Default]
            /\ head' = 0
            /\ tail' = 0
            /\ has_producer' = FALSE
            /\ has_consumer' = FALSE
  /\ UNCHANGED <<callvars, histvars, clients, mtvars>>

\* ------------------------------------------------------------------ views

Ready(c) == obj = "live" /\ pc[c] = "idle"

\* Mutant of ProducerCtor: the result of the exchange is not waited on.
ProducerCtorNoWait(c) ==
  /\ obj = "live"
  /\ pc[c] \in {"idle", "spinP"}
  /\ has_producer' = TRUE
  /\ pc' = [pc EXCEPT ![c] = "idle"]
  /\ holds' = [holds EXCEPT ![c] = @ \cup {"P"}]
  /\ ret' = [op |-> "ProducerCtor", val |-> NULL]
  /\ UNCHANGED <<obj, requested, size, data, head, tail, has_consumer>>
  /\ UNCHANGED <<histvars, clients, mtvars>>

\* One iteration of the loop in CircularBufferProducer's constructor: the
\* exchange sets the flag and returns its old value; the constructor returns
\* (buf = buffer) when the old value was false and loops otherwise.
ProducerCtor(c) ==
  /\ obj = "live"
  /\ pc[c] \in {"idle", "spinP"}
  /\ has_producer' = TRUE
  /\ IF has_producer
       THEN /\ pc' = [pc EXCEPT ![c] = "spinP"]
            /\ UNCHANGED holds
       ELSE /\ pc' = [pc EXCEPT ![c] = "idle"]
            /\ holds' = [holds EXCEPT ![c] = @ \cup {"P"}]
  /\ ret' = [op |-> "ProducerCtor", val |-> NULL]
  /\ UNCHANGED <<obj, requested, size, data, head, tail, has_consumer>>
  /\ UNCHANGED <<histvars, clients, mtvars>>

\* Mutant of ProducerDtor: the flag is not cleared.
ProducerDtorKeepsFlag(c) ==
  /\ Ready(c)
  /\ "P" \in holds[c]
  /\ has_producer' = has_producer
  /\ holds' = [holds EXCEPT ![c] = @ \ {"P"}]
  /\ ret' = [op |-> "ProducerDtor", val |-> NULL]
  /\ UNCHANGED <<obj, requested, size, data, head, tail, has_consumer, pc>>
  /\ UNCHANGED <<histvars, clients, mtvars>>

\* ~CircularBufferProducer().
ProducerDtor(c) ==
  /\ Ready(c)
  /\ "P" \in holds[c]
  /\ has_producer' = FALSE
  /\ holds' = [holds EXCEPT ![c] = @ \ {"P"}]
  /\ ret' = [op |-> "ProducerDtor", val |-> NULL]
  /\ UNCHANGED <<obj, requested, size, data, head, tail, has_consumer, pc>>
  /\ UNCHANGED <<histvars, clients, mtvars>>

\* Mutant of ConsumerCtor: a consumer view that wins the flag starts reading
\* at tail, dropping what is stored.
ConsumerCtorSkips(c) ==
  /\ obj = "live"
  /\ pc[c] \in {"idle", "spinC"}
  /\ has_consumer' = TRUE
  /\ IF has_consumer
       THEN /\ pc' = [pc EXCEPT ![c] = "spinC"]
            /\ UNCHANGED <<holds, head>>
       ELSE /\ pc' = [pc EXCEPT ![c] = "idle"]
            /\ holds' = [holds EXCEPT ![c] = @ \cup {"C"}]
            /\ head' = tail
  /\ ret' = [op |-> "ConsumerCtor", val |-> NULL]
  /\ UNCHANGED <<obj, requested, size, data, tail, has_producer>>
  /\ UNCHANGED <<histvars, clients, mtvars>>

\* One iteration of the loop in CircularBufferConsumer's constructor.
ConsumerCtor(c) ==
  /\ obj = "live"
  /\ pc[c] \in {"idle", "spinC"}
  /\ has_consumer' = TRUE
  /\ IF has_consumer
       THEN /\ pc' = [pc EXCEPT ![c] = "spinC"]
            /\ UNCHANGED holds
       ELSE /\ pc' = [pc EXCEPT ![c] = "idle"]
            /\ holds' = [holds EXCEPT ![c] = @ \cup {"C"}]
  /\ ret' = [op |-> "ConsumerCtor", val |-> NULL]
  /\ UNCHANGED <<obj, requested, size, data, head, tail, has_producer>>
  /\ UNCHANGED <<histvars, clients, mtvars>>

\* ~CircularBufferConsumer().
ConsumerDtor(c) ==
  /\ Ready(c)
  /\ "C" \in holds[c]
  /\ has_consumer' = FALSE
  /\ holds' = [holds EXCEPT ![c] = @ \ {"C"}]
  /\ ret' = [op |-> "ConsumerDtor", val |-> NULL]
  /\ UNCHANGED <<obj, requested, size, data, head, tail, has_producer, pc>>
  /\ UNCHANGED <<histvars, clients, mtvars>>

\* ---------------------------------------------------------- producer view

\* CircularBufferProducer::push(item): load tail, write data[tail], store the
\* advanced tail. No check of filled() is made. With size == 0 (queue_size -1)
\* data[tail] is outside the empty vector and % buf->size divides by zero:
\* undefined behaviour, after which nothing is modelled.
Push(c, item) ==
  /\ Ready(c)
  /\ "P" \in holds[c]
  /\ Len(pushed) < MaxPush
  /\ IF tail \notin DOMAIN data
       THEN /\ obj' = "ub"
            /\ UNCHANGED <<data, tail, histvars>>
       ELSE /\ data' = WriteSlot(data, tail, item)
            /\ tail' = NextIndex(tail, size)
            /\ pushed' = Append(pushed, item)
            /\ unread' = unread \cup {tail}
            /\ misused' = misused + (IF filled THEN 1 ELSE 0)
            /\ UNCHANGED <<obj, popped>>
  /\ ret' = [op |-> "push", val |-> NULL]
  /\ UNCHANGED <<requested, size, head, has_producer, has_consumer>>
  /\ UNCHANGED <<pc, holds, clients, mtvars>>

\* push as the doc comment requires it to be called: after filled() said no.
GuardedPush(c, item) ==
  /\ ~filled
  /\ Push(c, item)

\* A call of CircularBufferProducer::filled().
FilledCall(c) ==
  /\ Ready(c)
  /\ "P" \in holds[c]
  /\ ret' = [op |-> "filled", val |-> filled]
  /\ UNCHANGED <<bufvars, pc, holds, histvars, clients, mtvars>>

\* A call of CircularBufferProducer::size().
ProducerSizeCall(c) ==
  /\ Ready(c)
  /\ "P" \in holds[c]
  /\ ret' = [op |-> "psize", val |-> ProducerSize]
  /\ UNCHANGED <<bufvars, pc, holds, histvars, clients, mtvars>>

\* ---------------------------------------------------------- consumer view

\* CircularBufferConsumer::pop(): load head, move data[head] out, store the
\* advanced head, return the value. No check of empty() is made.
Pop(c) ==
  /\ Ready(c)
  /\ "C" \in holds[c]
  /\ Len(popped) < MaxPush
  /\ IF head \notin DOMAIN data
       THEN /\ obj' = "ub"
            /\ ret' = [op |-> "pop", val |-> NULL]
            /\ UNCHANGED <<data, head, histvars>>
       ELSE /\ LET slot == PopSlot(head, size) IN
                 /\ \E m \in MovedFrom(data[slot]) : data' = [data EXCEPT ![slot] = m]
                 /\ popped' = Append(popped, data[slot])
                 /\ unread' = unread \ {slot}
                 /\ ret' = [op |-> "pop", val |-> data[slot]]
            /\ head' = NextIndex(head, size)
            /\ misused' = misused + (IF empty THEN 1 ELSE 0)
            /\ UNCHANGED <<obj, pushed>>
  /\ UNCHANGED <<requested, size, tail, has_producer, has_consumer>>
  /\ UNCHANGED <<pc, holds, clients, mtvars>>

\* pop as the doc comment requires it to be called: after empty() said no.
GuardedPop(c) ==
  /\ ~empty
  /\ Pop(c)

\* A call of CircularBufferConsumer::empty().
EmptyCall(c) ==
  /\ Ready(c)
  /\ "C" \in holds[c]
  /\ ret' = [op |-> "empty", val |-> empty]
  /\ UNCHANGED <<bufvars, pc, holds, histvars, clients, mtvars>>

\* A call of CircularBufferConsumer::size().
ConsumerSizeCall(c) ==
  /\ Ready(c)
  /\ "C" \in holds[c]
  /\ ret' = [op |-> "csize", val |-> ConsumerSize]
  /\ UNCHANGED <<bufvars, pc, holds, histvars, clients, mtvars>>

\* Mutant of FrontCall: front() advances head as pop() does.
FrontCallAdvances(c) ==
  /\ Ready(c)
  /\ "C" \in holds[c]
  /\ ret' = [op |-> "front", val |-> front]
  /\ head' = IF head = tail THEN head ELSE NextIndex(head, size)
  /\ UNCHANGED <<obj, requested, size, data, tail, has_producer, has_consumer>>
  /\ UNCHANGED <<pc, holds, histvars, clients, mtvars>>

\* A call of CircularBufferConsumer::front().
FrontCall(c) ==
  /\ Ready(c)
  /\ "C" \in holds[c]
  /\ ret' = [op |-> "front", val |-> front]
  /\ UNCHANGED <<bufvars, pc, holds, histvars, clients, mtvars>>

\* ------------------------------------------------- Spec: one guarded client

InitClients(cs) ==
  /\ clients = cs
  /\ pc = [c \in cs |-> "idle"]
  /\ holds = [c \in cs |-> {}]

Init ==
  /\ InitCommon
  /\ InitClients({1})
  /\ NoThreads

Next ==
  \/ \E q \in QueueSizes : Construct(q)
  \/ \E c \in clients : ProducerCtor(c)
  \/ \E c \in clients : ProducerDtor(c)
  \/ \E c \in clients : ConsumerCtor(c)
  \/ \E c \in clients : ConsumerDtor(c)
  \/ \E c \in clients, item \in Values : GuardedPush(c, item)
  \/ \E c \in clients : GuardedPop(c)
  \/ \E c \in clients : FilledCall(c)
  \/ \E c \in clients : ProducerSizeCall(c)
  \/ \E c \in clients : EmptyCall(c)
  \/ \E c \in clients : ConsumerSizeCall(c)
  \/ \E c \in clients : FrontCall(c)

Spec == Init /\ [][Next]_vars

\* ---------------------------------------- SpecUnguarded: no checks made

\* push called without asking filled() first.
UncheckedPush(c, item) ==
  /\ filled => misused < MaxMisuse
  /\ Push(c, item)

\* pop called without asking empty() first.
UncheckedPop(c) ==
  /\ empty => misused < MaxMisuse
  /\ Pop(c)

NextUnguarded ==
  \/ \E q \in PositiveQueueSizes : Construct(q)
  \/ \E c \in clients : ProducerCtor(c)
  \/ \E c \in clients : ProducerDtor(c)
  \/ \E c \in clients : ConsumerCtor(c)
  \/ \E c \in clients : ConsumerDtor(c)
  \/ \E c \in clients, item \in Values : UncheckedPush(c, item)
  \/ \E c \in clients : UncheckedPop(c)

SpecUnguarded == Init /\ [][NextUnguarded]_vars

\* ------------------------------------- SpecViews: callers contend for views

InitViews ==
  /\ InitCommon
  /\ InitClients(1..NumCallers)
  /\ NoThreads

ViewPush(c, item) ==
  /\ Len(pushed) < MaxViewPush
  /\ GuardedPush(c, item)

NextViews ==
  \/ \E q \in PositiveQueueSizes : Construct(q)
  \/ \E c \in clients : ProducerCtor(c)
  \/ \E c \in clients : ProducerDtor(c)
  \/ \E c \in clients : ConsumerCtor(c)
  \/ \E c \in clients : ConsumerDtor(c)
  \/ \E c \in clients, item \in Values : ViewPush(c, item)
  \/ \E c \in clients : GuardedPop(c)

SpecViews == InitViews /\ [][NextViews]_vars

\* --------------------- SpecViewsFair: contention for the views, scheduled
\* A caller inside a view constructor is a running thread in a busy loop: it
\* keeps executing exchanges, which is weak fairness of its spinning step.
\* Nothing obliges a caller to construct or to destroy a view.

SpinProducer(c) ==
  /\ pc[c] = "spinP"
  /\ ProducerCtor(c)

SpinConsumer(c) ==
  /\ pc[c] = "spinC"
  /\ ConsumerCtor(c)

NextClaims ==
  \/ \E q \in PositiveQueueSizes : Construct(q)
  \/ \E c \in clients : ProducerCtor(c)
  \/ \E c \in clients : ProducerDtor(c)
  \/ \E c \in clients : ConsumerCtor(c)
  \/ \E c \in clients : ConsumerDtor(c)

SpecViewsFair ==
  /\ InitViews
  /\ [][NextClaims]_vars
  /\ \A c \in 1..NumCallers :
       WF_vars(SpinProducer(c)) /\ WF_vars(SpinConsumer(c))

\* ------------------------------- SpecMT: the two threads of MULTITHREAD_2
\* Every step is one atomic load, exchange or store, or one access to a slot,
\* together with the thread-local computation that follows it.

InitMT ==
  /\ InitCommon
  /\ InitClients({})
  /\ tpc = [t \in {"producer", "consumer"} |-> "ctor"]
  /\ loc = [t \in {"producer", "consumer"} |-> [h |-> 0, t |-> 0, k |-> 0, r |-> NULL]]

At(t, l) == obj = "live" /\ tpc[t] = l

Goto(t, l) == tpc' = [tpc EXCEPT ![t] = l]

\* for (int k = 0; k < N; k++) of the producer: where it goes with counter k.
ProducerLoop(k) == IF k < NItems THEN "filled_head" ELSE "dtor"

\* for (int k = 0; k < N; k++) of the consumer: after the loop comes t.join().
ConsumerLoop(k) == IF k < NItems THEN "empty_head" ELSE "join"

\* CircularBufferProducer<int> producer(buffer): one exchange of the loop.
P_Ctor ==
  /\ At("producer", "ctor")
  /\ has_producer' = TRUE
  /\ IF has_producer
       THEN UNCHANGED tpc
       ELSE Goto("producer", ProducerLoop(loc["producer"].k))
  /\ UNCHANGED <<obj, requested, size, data, head, tail, has_consumer>>
  /\ UNCHANGED <<callvars, histvars, clients, loc>>

\* while (producer.filled()): head = buf->head.load(acquire) of size().
P_FilledHead ==
  /\ At("producer", "filled_head")
  /\ loc' = [loc EXCEPT !["producer"].h = head]
  /\ Goto("producer", "filled_tail")
  /\ UNCHANGED <<bufvars, callvars, histvars, clients>>

\* Mutant of P_FilledTail: the producer reuses the tail it loaded for its
\* previous push instead of loading it again.
P_FilledTailStale ==
  /\ At("producer", "filled_tail")
  /\ loc' = loc
  /\ IF FilledOf(loc["producer"].h, loc["producer"].t, size)
       THEN Goto("producer", "filled_head")
       ELSE Goto("producer", "push_load")
  /\ UNCHANGED <<bufvars, callvars, histvars, clients>>

\* tail = buf->tail.load() of size(), then the test of filled(): spin again
\* when it is true, go on to push when it is false.
P_FilledTail ==
  /\ At("producer", "filled_tail")
  /\ loc' = [loc EXCEPT !["producer"].t = tail]
  /\ IF FilledOf(loc["producer"].h, tail, size)
       THEN Goto("producer", "filled_head")
       ELSE Goto("producer", "push_load")
  /\ UNCHANGED <<bufvars, callvars, histvars, clients>>

\* Mutant of P_PushLoad: the advanced tail is published before the slot is
\* written.
P_PushLoadPublishes ==
  /\ At("producer", "push_load")
  /\ loc' = [loc EXCEPT !["producer"].t = tail]
  /\ tail' = NextIndex(tail, size)
  /\ Goto("producer", "push_write")
  /\ UNCHANGED <<obj, requested, size, data, head, has_producer, has_consumer>>
  /\ UNCHANGED <<callvars, histvars, clients>>

\* producer.push(k): tail = buf->tail.load().
P_PushLoad ==
  /\ At("producer", "push_load")
  /\ loc' = [loc EXCEPT !["producer"].t = tail]
  /\ Goto("producer", "push_write")
  /\ UNCHANGED <<bufvars, callvars, histvars, clients>>

\* buf->data[tail] = std::move(item), the item being k.
P_PushWrite ==
  /\ At("producer", "push_write")
  /\ data' = WriteSlot(data, loc["producer"].t, loc["producer"].k)
  /\ pushed' = Append(pushed, loc["producer"].k)
  /\ unread' = unread \cup {loc["producer"].t}
  /\ Goto("producer", "push_store")
  /\ UNCHANGED <<obj, requested, size, head, tail, has_producer, has_consumer>>
  /\ UNCHANGED <<callvars, popped, misused, clients, loc>>

\* buf->tail.store((tail + 1) % buf->size, release), then k++ and the loop test.
P_PushStore ==
  /\ At("producer", "push_store")
  /\ tail' = NextIndex(loc["producer"].t, size)
  /\ loc' = [loc EXCEPT !["producer"].k = @ + 1]
  /\ Goto("producer", ProducerLoop(loc["producer"].k + 1))
  /\ UNCHANGED <<obj, requested, size, data, head, has_producer, has_consumer>>
  /\ UNCHANGED <<callvars, histvars, clients>>

\* End of the thread's lambda: ~CircularBufferProducer().
P_Dtor ==
  /\ At("producer", "dtor")
  /\ has_producer' = FALSE
  /\ Goto("producer", "done")
  /\ UNCHANGED <<obj, requested, size, data, head, tail, has_consumer>>
  /\ UNCHANGED <<callvars, histvars, clients, loc>>

\* CircularBufferConsumer<int> consumer(buffer): one exchange of the loop.
C_Ctor ==
  /\ At("consumer", "ctor")
  /\ has_consumer' = TRUE
  /\ IF has_consumer
       THEN UNCHANGED tpc
       ELSE Goto("consumer", ConsumerLoop(loc["consumer"].k))
  /\ UNCHANGED <<obj, requested, size, data, head, tail, has_producer>>
  /\ UNCHANGED <<callvars, histvars, clients, loc>>

\* while (consumer.empty()): head = buf->head.load() of size().
C_EmptyHead ==
  /\ At("consumer", "empty_head")
  /\ loc' = [loc EXCEPT !["consumer"].h = head]
  /\ Goto("consumer", "empty_tail")
  /\ UNCHANGED <<bufvars, callvars, histvars, clients>>

\* tail = buf->tail.load(acquire) of size(), then the test of empty().
C_EmptyTail ==
  /\ At("consumer", "empty_tail")
  /\ loc' = [loc EXCEPT !["consumer"].t = tail]
  /\ IF EmptyOf(loc["consumer"].h, tail, size)
       THEN Goto("consumer", "empty_head")
       ELSE Goto("consumer", "pop_load")
  /\ UNCHANGED <<bufvars, callvars, histvars, clients>>

\* Mutant of C_PopLoad: the advanced head is published before the slot is
\* read.
C_PopLoadPublishes ==
  /\ At("consumer", "pop_load")
  /\ loc' = [loc EXCEPT !["consumer"].h = head]
  /\ head' = NextIndex(head, size)
  /\ Goto("consumer", "pop_move")
  /\ UNCHANGED <<obj, requested, size, data, tail, has_producer, has_consumer>>
  /\ UNCHANGED <<callvars, histvars, clients>>

\* consumer.pop(): head = buf->head.load().
C_PopLoad ==
  /\ At("consumer", "pop_load")
  /\ loc' = [loc EXCEPT !["consumer"].h = head]
  /\ Goto("consumer", "pop_move")
  /\ UNCHANGED <<bufvars, callvars, histvars, clients>>

\* T ret = std::move(buf->data[head]).
C_PopMove ==
  /\ At("consumer", "pop_move")
  /\ LET slot == PopSlot(loc["consumer"].h, size) IN
       /\ \E m \in MovedFrom(data[slot]) : data' = [data EXCEPT ![slot] = m]
       /\ loc' = [loc EXCEPT !["consumer"].r = data[slot]]
       /\ unread' = unread \ {slot}
  /\ Goto("consumer", "pop_store")
  /\ UNCHANGED <<obj, requested, size, head, tail, has_producer, has_consumer>>
  /\ UNCHANGED <<callvars, pushed, popped, misused, clients>>

\* buf->head.store((head + 1) % buf->size, release); return ret; then
\* ASSERT_EQ(consumer.pop(), k): a mismatch ends the test body at once.
C_PopStore ==
  /\ At("consumer", "pop_store")
  /\ head' = NextIndex(loc["consumer"].h, size)
  /\ popped' = Append(popped, loc["consumer"].r)
  /\ IF loc["consumer"].r = loc["consumer"].k
       THEN /\ loc' = [loc EXCEPT !["consumer"].k = @ + 1]
            /\ Goto("consumer", ConsumerLoop(loc["consumer"].k + 1))
       ELSE /\ UNCHANGED loc
            /\ Goto("consumer", "failed")
  /\ UNCHANGED <<obj, requested, size, data, tail, has_producer, has_consumer>>
  /\ UNCHANGED <<callvars, pushed, unread, misused, clients>>

\* t.join(): returns once the producer thread has ended.
C_Join ==
  /\ At("consumer", "join")
  /\ tpc["producer"] = "done"
  /\ Goto("consumer", "final_empty")
  /\ UNCHANGED <<bufvars, callvars, histvars, clients, loc>>

\* ASSERT_EQ(consumer.empty(), true) after the join.
C_FinalEmpty ==
  /\ At("consumer", "final_empty")
  /\ ret' = [op |-> "empty", val |-> empty]
  /\ Goto("consumer", IF empty THEN "final_size" ELSE "failed")
  /\ UNCHANGED <<bufvars, pc, holds, histvars, clients, loc>>

\* ASSERT_EQ(consumer.size(), 0) after the join.
C_FinalSize ==
  /\ At("consumer", "final_size")
  /\ ret' = [op |-> "csize", val |-> ConsumerSize]
  /\ Goto("consumer", IF ConsumerSize = 0 THEN "dtor" ELSE "failed")
  /\ UNCHANGED <<bufvars, pc, holds, histvars, clients, loc>>

\* End of the test body: ~CircularBufferConsumer().
C_Dtor ==
  /\ At("consumer", "dtor")
  /\ has_consumer' = FALSE
  /\ Goto("consumer", "done")
  /\ UNCHANGED <<obj, requested, size, data, head, tail, has_producer>>
  /\ UNCHANGED <<callvars, histvars, clients, loc>>

ProducerThread ==
  \/ P_Ctor
  \/ P_FilledHead
  \/ P_FilledTail
  \/ P_PushLoad
  \/ P_PushWrite
  \/ P_PushStore
  \/ P_Dtor

ConsumerThread ==
  \/ C_Ctor
  \/ C_EmptyHead
  \/ C_EmptyTail
  \/ C_PopLoad
  \/ C_PopMove
  \/ C_PopStore
  \/ C_Join
  \/ C_FinalEmpty
  \/ C_FinalSize
  \/ C_Dtor

NextMT ==
  \/ \E q \in PositiveQueueSizes : Construct(q)
  \/ ProducerThread
  \/ ConsumerThread

SpecMT == InitMT /\ [][NextMT]_vars

\* Both threads are scheduled: a thread that can take a step eventually takes
\* one. The fixture's SetUp builds the buffer before the test body runs.
SpecMTFair ==
  /\ SpecMT
  /\ WF_vars(\E q \in PositiveQueueSizes : Construct(q))
  /\ WF_vars(ProducerThread)
  /\ WF_vars(ConsumerThread)

\* ------------------- SpecMTFront: the consumer also looks at the front item
\* Before the guarded pop of an iteration the consumer may call front(), any
\* number of times. ret keeps what the last front() returned: the slot (val),
\* the value read through the reference (at), the consumer's iteration (k) and
\* how many pushes had been made (n).

\* consumer.front(): head = buf->head.load().
C_FrontHead ==
  /\ At("consumer", "empty_head")
  /\ loc' = [loc EXCEPT !["consumer"].h = head]
  /\ Goto("consumer", "front_tail")
  /\ UNCHANGED <<bufvars, callvars, histvars, clients>>

\* tail = buf->tail.load(acquire) of front(), the test and the return.
C_FrontTail ==
  /\ At("consumer", "front_tail")
  /\ loc' = [loc EXCEPT !["consumer"].t = tail]
  /\ LET f == FrontOf(loc["consumer"].h, tail) IN
       ret' = [op |-> "front", val |-> f,
               at |-> IF f = NULL THEN NULL ELSE data[f],
               k |-> loc["consumer"].k, n |-> Len(pushed)]
  /\ Goto("consumer", "empty_head")
  /\ UNCHANGED <<bufvars, pc, holds, histvars, clients>>

NextMTFront ==
  \/ NextMT
  \/ C_FrontHead
  \/ C_FrontTail

SpecMTFront == InitMT /\ [][NextMTFront]_vars

\* ------------------------------------------------------------ properties

Live == obj = "live" /\ Capacity >= 1

\* Number of items pushed and not yet popped.
Stored == Len(pushed) - Len(popped)

\* The oldest item pushed and not yet popped (when Stored > 0).
Oldest == pushed[Len(popped) + 1]

\* C2: under guarded sequential use every capacity C >= 1 gives a FIFO queue
\* bounded by C: the values popped so far are exactly the first pushed ones, in
\* order, and between 0 and C items are stored, also after the cursors wrapped.
C2_FifoBounded ==
  Live =>
    /\ Stored \in 0..Capacity
    /\ \A k \in 1..Len(popped) : popped[k] = pushed[k]

\* C2 witness: more pops than slots (both cursors have wrapped) and the last
\* popped value is a non-default item.
C2_Witness ==
  /\ Live
  /\ Len(popped) > size
  /\ popped[Len(popped)] = 1
  /\ popped[Len(popped) - 1] = 0

\* C4 (the claim as stated): a constructor call with queue_size <= 0 fails.
C4_NonPositiveRejected ==
  (obj # "none" /\ requested <= 0) => obj = "threw"

\* C6: from a fresh buffer of capacity C >= 1, after exactly C pushes filled()
\* is true, empty() false and both size() are C; one pop after them returns the
\* first item pushed and leaves filled() false and both size() at C - 1.
C6_FillToCapacity ==
  (Live /\ Len(pushed) = Capacity) =>
    /\ popped = <<>> =>
         /\ filled
         /\ ~empty
         /\ ProducerSize = Capacity
         /\ ConsumerSize = Capacity
    /\ (Len(popped) = 1 /\ ret.op = "pop") =>
         /\ ret.val = pushed[1]
         /\ ~filled
         /\ ProducerSize = Capacity - 1
         /\ ConsumerSize = Capacity - 1

\* C6 witness: capacity 3 filled with three pushes, then one pop.
C6_Witness ==
  /\ Live
  /\ Capacity = MaxQueueSize
  /\ Len(pushed) = Capacity
  /\ Len(popped) = 1
  /\ ret = [op |-> "pop", val |-> 1]
  /\ ~filled

\* C7: a buffer just constructed with C >= 1 has both cursors at 0 and both
\* flags unclaimed; a view constructor that finds its flag unclaimed returns
\* at its first exchange; and until the first push the views report
\* empty() = true, size() = 0 and front() = NULL.
C7_Fresh ==
  [][ (obj' = "live" /\ Capacity' >= 1 /\ pushed' = <<>> /\ popped' = <<>>) =>
        /\ head' = 0 /\ tail' = 0
        /\ obj = "none" => (~has_producer' /\ ~has_consumer')
        /\ \A c \in clients :
             /\ (~has_producer /\ ProducerCtor(c)) => ("P" \in holds'[c] /\ pc'[c] = "idle")
             /\ (~has_consumer /\ ConsumerCtor(c)) => ("C" \in holds'[c] /\ pc'[c] = "idle")
        /\ ret'.op = "empty" => ret'.val = TRUE
        /\ ret'.op = "filled" => ret'.val = FALSE
        /\ ret'.op \in {"csize", "psize"} => ret'.val = 0
        /\ ret'.op = "front" => ret'.val = NULL
    ]_vars

\* C7 witness: both views of a fresh buffer acquired, front() just asked.
C7_Witness ==
  /\ Live
  /\ pushed = <<>>
  /\ holds[1] = {"P", "C"}
  /\ ret = [op |-> "front", val |-> NULL]

\* C8: a push(x) on a buffer that is not full adds exactly 1 to the size() of
\* both views and leaves it non-empty; on an empty buffer front() then refers
\* to x and the size is 1 (filled() exactly when C = 1); on a non-empty buffer
\* front() keeps referring to the same, oldest item. A front() call changes
\* neither the buffer nor what has been pushed and popped.
C8_PushEffect ==
  [][ /\ \A c \in clients, x \in Values :
           (Capacity >= 1 /\ GuardedPush(c, x)) =>
             /\ ProducerSize' = ProducerSize + 1
             /\ ConsumerSize' = ConsumerSize + 1
             /\ ~empty'
             /\ front' # NULL
             /\ empty =>
                  /\ data'[front'] = x
                  /\ ConsumerSize' = 1
                  /\ filled' <=> (Capacity = 1)
             /\ ~empty =>
                  /\ front' = front
                  /\ data'[front'] = data[front]
                  /\ data'[front'] = Oldest
      /\ \A c \in clients :
           FrontCall(c) => UNCHANGED <<bufvars, histvars>>
    ]_vars

\* C8 witness: after the cursors wrapped, a push of 1 onto an empty buffer.
C8_Witness ==
  /\ Live
  /\ ret.op = "push"
  /\ Len(pushed) > size
  /\ Stored = 1
  /\ data[front] = 1

\* C9: a pop() on a non-empty buffer returns the oldest stored item, takes
\* exactly 1 from the size() of both views, and moves front() off the slot it
\* read: front() is NULL if the buffer became empty, and otherwise refers to
\* the item pushed right after the one returned.
C9_PopEffect ==
  [][ \A c \in clients :
        (Capacity >= 1 /\ GuardedPop(c)) =>
          /\ ret'.val = Oldest
          /\ ProducerSize' = ProducerSize - 1
          /\ ConsumerSize' = ConsumerSize - 1
          /\ front' # front
          /\ Stored = 1 => front' = NULL
          /\ Stored > 1 =>
               /\ front' # NULL
               /\ data'[front'] = pushed[Len(popped) + 2]
    ]_vars

\* C9 witness: a pop returned 1 and left a 0, pushed right after it, in front.
C9_Witness ==
  /\ Live
  /\ ret = [op |-> "pop", val |-> 1]
  /\ Stored >= 1
  /\ front # NULL
  /\ pushed[Len(popped)] = 1
  /\ pushed[Len(popped) + 1] = 0
  /\ data[front] = 0

\* C10: front() changes no state; on a buffer with nothing stored it returns
\* NULL, otherwise the slot data[head], which holds the oldest stored item;
\* a front() call right after another returns the same slot.
C10_FrontPure ==
  [][ \A c \in clients :
        (Capacity >= 1 /\ FrontCall(c)) =>
          /\ UNCHANGED <<bufvars, histvars>>
          /\ Stored = 0 => ret'.val = NULL
          /\ Stored > 0 =>
               /\ ret'.val = head
               /\ data'[ret'.val] = Oldest
          /\ ret.op = "front" => ret'.val = ret.val
    ]_vars

\* C10 witness: front() on a non-empty, wrapped buffer returned slot 0, which
\* holds a 1.
C10_Witness ==
  /\ Live
  /\ ret = [op |-> "front", val |-> 0]
  /\ Len(popped) >= size
  /\ data[0] = 1

\* C3: at most one caller owns a live producer view and at most one a live
\* consumer view, and the owner's flag is set; a view constructor that runs
\* while another caller owns the view of its role does not return but spins,
\* and a spinning caller leaves its constructor only in a step in which no
\* other caller owns that view.
C3_OneViewPerRole ==
  [][ /\ Cardinality({c \in clients : "P" \in holds'[c]}) <= 1
      /\ Cardinality({c \in clients : "C" \in holds'[c]}) <= 1
      /\ (\E c \in clients : "P" \in holds'[c]) => has_producer'
      /\ (\E c \in clients : "C" \in holds'[c]) => has_consumer'
      /\ \A c \in clients :
           /\ (ProducerCtor(c) /\ \E d \in clients \ {c} : "P" \in holds[d]) =>
                (pc'[c] = "spinP" /\ "P" \notin holds'[c])
           /\ (ConsumerCtor(c) /\ \E d \in clients \ {c} : "C" \in holds[d]) =>
                (pc'[c] = "spinC" /\ "C" \notin holds'[c])
           /\ (pc[c] = "spinP" /\ pc'[c] # "spinP") =>
                ("P" \in holds'[c] /\ \A d \in clients \ {c} : "P" \notin holds[d])
           /\ (pc[c] = "spinC" /\ pc'[c] # "spinC") =>
                ("C" \in holds'[c] /\ \A d \in clients \ {c} : "C" \notin holds[d])
    ]_vars

\* C3 witness: caller 2 owns the producer view it had to spin for (caller 1
\* owned it before and pushed), and caller 1 now spins for it in turn.
C3_Witness ==
  /\ holds[2] = {"P"}
  /\ pc[1] = "spinP"
  /\ Len(pushed) = 2
  /\ ret.op = "ProducerCtor"
  /\ has_producer

\* C5 (the claim as stated): a push on a full buffer raises no error and
\* overwrites a slot holding an item not yet read.
C5_OverwritesUnread ==
  [][ \A c \in clients, x \in Values :
        (Live /\ Stored = Capacity /\ Push(c, x)) =>
          (obj' = "live" /\ tail \in unread)
    ]_vars

\* C5 (amended): a push on a buffer filled by guarded use raises no error and
\* writes the item into the reserved slot data[tail], which holds no unread
\* item; no unread slot changes; tail then equals head, so that empty() is
\* true, filled() false and both size() are 0 while C + 1 items are unread.
C5_FullPushWrapsToEmpty ==
  [][ \A c \in clients, x \in Values :
        (Live /\ misused = 0 /\ Stored = Capacity /\ Push(c, x)) =>
          /\ obj' = "live"
          /\ filled
          /\ tail \notin unread
          /\ data'[tail] = x
          /\ \A i \in unread : data'[i] = data[i]
          /\ unread' = DOMAIN data
          /\ tail' = head
          /\ empty'
          /\ ~filled'
          /\ ProducerSize' = 0
          /\ ConsumerSize' = 0
          /\ front' = NULL
    ]_vars

\* C5 witness: a full buffer whose cursors had moved took one more push.
C5_Witness ==
  /\ Live
  /\ misused = 1
  /\ ret.op = "push"
  /\ Len(popped) >= 1
  /\ Stored = Capacity + 1
  /\ head = tail
  /\ data[(tail + size - 1) % size] = 1

\* C1: in every interleaving of the two threads' atomic steps the values pop
\* returned so far are the first values the producer pushed, in push order,
\* which are 0, 1, 2, ...: nothing is lost, duplicated or reordered, no
\* ASSERT_EQ fails, and when both threads are done all N values were popped.
C1_ConcurrentFifo ==
  /\ Len(popped) <= Len(pushed)
  /\ \A k \in 1..Len(popped) : popped[k] = pushed[k] /\ popped[k] = k - 1
  /\ \A k \in 1..Len(pushed) : pushed[k] = k - 1
  /\ tpc["consumer"] # "failed"
  /\ (tpc["consumer"] = "done" /\ tpc["producer"] = "done") => Len(popped) = NItems

\* C1 witness: capacity 1 (two slots, so both cursors wrapped), all N values
\* popped in order, both threads done.
C1_Witness ==
  /\ tpc = [t \in {"producer", "consumer"} |-> "done"]
  /\ size = 2
  /\ popped = [k \in 1..NItems |-> k - 1]
  /\ Len(pushed) = NItems

\* C11: under guarded use both cursors stay in 0..capacity and size() of
\* either view is (tail - head + capacity + 1) mod (capacity + 1), a number in
\* 0..capacity that is the number of items pushed and not yet popped, whether
\* tail >= head or tail has wrapped below head.
C11_OccupancyFormula ==
  Live =>
    /\ head \in 0..Capacity
    /\ tail \in 0..Capacity
    /\ ProducerSize = (tail - head + (Capacity + 1)) % (Capacity + 1)
    /\ ConsumerSize = (tail - head + (Capacity + 1)) % (Capacity + 1)
    /\ ProducerSize \in 0..Capacity
    /\ ConsumerSize = Stored

\* C11 witness: a buffer of capacity >= 2 that is full while tail has wrapped
\* below head.
C11_Witness ==
  /\ Live
  /\ Capacity >= 2
  /\ tail < head
  /\ Stored = Capacity
  /\ ConsumerSize = Capacity

\* C12: under guarded use head = tail exactly when nothing is stored; a
\* buffer holding capacity items has tail one slot behind head modulo
\* capacity + 1; the unread slots are the Stored slots from head on, and the
\* slot at tail is never one of them.
C12_ReservedSlot ==
  Live =>
    /\ (head = tail) <=> (Stored = 0)
    /\ (Stored = Capacity) => ((tail + 1) % size = head)
    /\ ((tail + 1) % size = head) => (Stored = Capacity)
    /\ unread = {(head + i) % size : i \in 0..(Stored - 1)}
    /\ tail \notin unread

\* C12 witness: the largest buffer full with head off slot 0: the reserved
\* slot is the one at tail, right behind head.
C12_Witness ==
  /\ Live
  /\ Capacity = MaxQueueSize
  /\ Stored = Capacity
  /\ head = 1
  /\ tail = 0
  /\ unread = DOMAIN data \ {0}

\* C16: each cursor has one writer. A push leaves head, the flags and every
\* slot but data[tail] unchanged; a pop leaves tail, the flags and every slot
\* but data[head] unchanged; size(), filled(), empty() and front() change
\* nothing of the buffer; so tail changes only in push steps and head only in
\* pop steps.
C16_SingleWriter ==
  [][ /\ \A c \in clients, x \in Values :
           (Capacity >= 1 /\ GuardedPush(c, x)) =>
             /\ head' = head
             /\ tail' # tail
             /\ \A i \in DOMAIN data \ {tail} : data'[i] = data[i]
             /\ UNCHANGED <<obj, size, has_producer, has_consumer>>
      /\ \A c \in clients :
           /\ (Capacity >= 1 /\ GuardedPop(c)) =>
                /\ tail' = tail
                /\ head' # head
                /\ \A i \in DOMAIN data \ {head} : data'[i] = data[i]
                /\ data'[head] \in {data[head], Default}
                /\ UNCHANGED <<obj, size, has_producer, has_consumer>>
           /\ (FilledCall(c) \/ ProducerSizeCall(c) \/ EmptyCall(c)
                 \/ ConsumerSizeCall(c) \/ FrontCall(c)) =>
                UNCHANGED <<bufvars, histvars>>
      /\ (obj = "live" /\ tail' # tail) => ret'.op = "push"
      /\ (obj = "live" /\ head' # head) => ret'.op = "pop"
    ]_vars

\* C16 witness: a pop returned 1 and left its slot emptied while the slot
\* after it still holds an unread 1.
C16_Witness ==
  /\ Live
  /\ ret = [op |-> "pop", val |-> 1]
  /\ head # tail
  /\ data[(head + size - 1) % size] = Default
  /\ data[head] = 1

\* C19: a pop() on an empty buffer (nothing stored, head = tail) raises no
\* error, returns what data[head] holds, which is no unread item but T() or a
\* value pushed and popped before, and moves head one slot past tail, so that
\* right afterwards both size() are the capacity, filled() is true and
\* empty() is false although nothing is stored.
C19_EmptyPopReadsFull ==
  [][ \A c \in clients :
        (Live /\ misused = 0 /\ Stored = 0 /\ Pop(c)) =>
          /\ head = tail
          /\ obj' = "live"
          /\ ret'.val = data[head]
          /\ head \notin unread
          /\ \/ ret'.val = Default
             \/ \E k \in 1..Len(popped) : popped[k] = ret'.val
          /\ head' = (tail + 1) % size
          /\ tail' = tail
          /\ ConsumerSize' = Capacity
          /\ ProducerSize' = Capacity
          /\ filled'
          /\ ~empty'
          /\ front' # NULL
          /\ unread' = {}
          /\ Stored' = 0 - 1
    ]_vars

\* C19 witness: after a 1 was pushed and popped, a pop on the empty buffer of
\* capacity >= 2 returned a stale 1 and the buffer reads as full.
C19_Witness ==
  /\ Live
  /\ Capacity >= 2
  /\ misused = 1
  /\ ret = [op |-> "pop", val |-> 1]
  /\ Len(popped) = Len(pushed) + 1
  /\ filled
  /\ ConsumerSize = Capacity

\* C20: a step of a view constructor or destructor changes nothing but its
\* own role's flag (and who owns the view): cursors, slots, size and the
\* other role's flag stay as they are, as do the stored items; a constructor
\* that finds its own flag clear returns whatever the other role's flag is;
\* and every pop, under whichever view and caller, returns the oldest item
\* still stored, so the values popped are the first ones pushed, in order.
C20_ViewsFrame ==
  [][ /\ \A c \in clients :
           /\ ProducerCtor(c) =>
                /\ UNCHANGED <<obj, size, data, head, tail, has_consumer, histvars>>
                /\ ~has_producer => "P" \in holds'[c]
           /\ ProducerDtor(c) =>
                /\ UNCHANGED <<obj, size, data, head, tail, has_consumer, histvars>>
                /\ ~has_producer'
           /\ ConsumerCtor(c) =>
                /\ UNCHANGED <<obj, size, data, head, tail, has_producer, histvars>>
                /\ ~has_consumer => "C" \in holds'[c]
           /\ ConsumerDtor(c) =>
                /\ UNCHANGED <<obj, size, data, head, tail, has_producer, histvars>>
                /\ ~has_consumer'
      /\ Len(popped') > Len(popped) =>
           (ret'.op = "pop" /\ ret'.val = Oldest /\ popped' = Append(popped, Oldest))
      /\ Len(popped') <= Len(pushed')
      /\ \A k \in 1..Len(popped') : popped'[k] = pushed'[k]
      /\ Cardinality(unread') = Len(pushed') - Len(popped')
    ]_vars

\* C20 witness: two items were pushed and the first was popped, and now no
\* view is outstanding: the second item is stored with both flags clear.
C20_Witness ==
  /\ Live
  /\ \A c \in clients : holds[c] = {} /\ pc[c] = "idle"
  /\ ~has_producer
  /\ ~has_consumer
  /\ pushed = <<1, 0>>
  /\ popped = <<1>>
  /\ data[head] = 0
  /\ unread = {head}

\* C14: a destructor step clears its role's flag; with no view of a role
\* outstanding an exchange of a constructor for it acquires the view; and a
\* caller that is the only one spinning in a constructor while the flag is
\* clear (the owner was destroyed) eventually owns the view, unless another
\* caller constructs one first.
C14_Reclaim ==
  /\ [][ \A c \in clients :
           /\ ProducerDtor(c) => (~has_producer' /\ "P" \notin holds'[c])
           /\ ConsumerDtor(c) => (~has_consumer' /\ "C" \notin holds'[c])
           /\ (ProducerCtor(c) /\ \A d \in clients : "P" \notin holds[d]) =>
                (pc'[c] = "idle" /\ "P" \in holds'[c] /\ has_producer')
           /\ (ConsumerCtor(c) /\ \A d \in clients : "C" \notin holds[d]) =>
                (pc'[c] = "idle" /\ "C" \in holds'[c] /\ has_consumer')
       ]_vars
  /\ \A c \in 1..NumCallers :
       /\ (/\ pc[c] = "spinP"
           /\ ~has_producer
           /\ \A d \in (1..NumCallers) \ {c} : pc[d] # "spinP")
            ~> (\E d \in 1..NumCallers : "P" \in holds[d])
       /\ (/\ pc[c] = "spinC"
           /\ ~has_consumer
           /\ \A d \in (1..NumCallers) \ {c} : pc[d] # "spinC")
            ~> (\E d \in 1..NumCallers : "C" \in holds[d])

\* C14 witness: caller 1 spins in the consumer constructor, alone, while the
\* flag is clear because caller 2 has just destroyed its consumer view.
C14_Witness ==
  /\ pc[1] = "spinC"
  /\ pc[2] = "idle"
  /\ ~has_consumer
  /\ holds[2] = {}
  /\ ret.op = "ConsumerDtor"

\* C13: with both threads scheduled, the buffer is never at once full for
\* the producer and empty for the consumer, each spin loop is always left
\* for the push or pop it guards, every pushed item is eventually popped,
\* and the run ends with both threads finished, all N items popped, and the
\* consumer's final empty() true and size() 0.
C13_BothTerminate ==
  /\ [](Live => ~(filled /\ empty))
  /\ (tpc["producer"] \in {"filled_head", "filled_tail"})
       ~> (tpc["producer"] = "push_load")
  /\ (tpc["consumer"] \in {"empty_head", "empty_tail"})
       ~> (tpc["consumer"] = "pop_load")
  /\ \A k \in 1..NItems :
       (Len(pushed) >= k) ~> (Len(popped) >= k /\ popped[k] = pushed[k])
  /\ <>[](/\ tpc = [t \in {"producer", "consumer"} |-> "done"]
          /\ Len(popped) = NItems
          /\ empty
          /\ ConsumerSize = 0
          /\ ret = [op |-> "csize", val |-> 0])

\* C13 witness: capacity 1, both threads finished after N pushes and pops
\* that each had to wait for the other, the final size() having returned 0.
C13_Witness ==
  /\ tpc = [t \in {"producer", "consumer"} |-> "done"]
  /\ size = 2
  /\ Len(popped) = NItems
  /\ empty
  /\ ret = [op |-> "csize", val |-> 0]
  /\ ~has_producer
  /\ ~has_consumer

\* C15: push writes its slot while the old tail is still published and
\* pop reads its slot while the old head is still published; so the slot
\* the producer is about to write is never an unread one nor the one the
\* consumer is reading, and a pop that has seen the advanced tail reads, and
\* then returns, the oldest value the producer wrote.
C15_WriteThenPublish ==
  Live =>
    /\ tpc["producer"] = "push_write" =>
         /\ tail = loc["producer"].t
         /\ loc["producer"].t \notin unread
         /\ tpc["consumer"] \in {"pop_move", "pop_store"} =>
              loc["consumer"].h # loc["producer"].t
    /\ tpc["producer"] = "push_store" =>
         /\ tail = loc["producer"].t
         /\ data[loc["producer"].t] = loc["producer"].k
         /\ loc["producer"].t \in unread
    /\ tpc["consumer"] = "pop_move" =>
         /\ head = loc["consumer"].h
         /\ tail # loc["consumer"].h
         /\ loc["consumer"].h \in unread
         /\ data[loc["consumer"].h] = Oldest
    /\ tpc["consumer"] = "pop_store" =>
         /\ head = loc["consumer"].h
         /\ loc["consumer"].r = Oldest

\* C15 witness: after the cursors wrapped, the producer is about to write a
\* slot while the consumer is about to read another one.
C15_Witness ==
  /\ Live
  /\ tpc["producer"] = "push_write"
  /\ tpc["consumer"] = "pop_move"
  /\ loc["producer"].t # loc["consumer"].h
  /\ Len(popped) >= size

\* C18: when the producer's size() returns (its tail load, after its head
\* load), the value is at least the number of items then between the
\* published cursors, and when the consumer's size() returns the value is at
\* most that number; so from a false filled() to the end of the push that
\* follows the buffer is not full, and from a false empty() to the end of
\* the pop that follows it is not empty.
C18_StaleSizeIsSafe ==
  /\ [][ Live =>
           /\ P_FilledTail =>
                /\ ProducerSizeOf(loc'["producer"].h, loc'["producer"].t, size')
                     >= ConsumerSize'
                /\ ProducerSizeOf(loc'["producer"].h, loc'["producer"].t, size')
                     <= Capacity
                /\ tpc'["producer"] = "push_load" => ~filled'
           /\ C_EmptyTail =>
                /\ ConsumerSizeOf(loc'["consumer"].h, loc'["consumer"].t, size')
                     <= ConsumerSize'
                /\ tpc'["consumer"] = "pop_load" => ~empty'
       ]_vars
  /\ [](Live =>
          /\ tpc["producer"] \in {"push_load", "push_write", "push_store"} =>
               (~filled /\ ProducerSize < Capacity)
          /\ tpc["consumer"] \in {"pop_load", "pop_move", "pop_store"} =>
               (~empty /\ ConsumerSize >= 1))

\* C18 witness: the producer's size() has just returned a value larger than
\* the occupancy, computed from a head loaded before a pop completed, and the
\* producer spins on a buffer that is no longer full.
C18_Witness ==
  /\ Live
  /\ tpc["producer"] = "filled_head"
  /\ loc["producer"].t = tail
  /\ loc["producer"].h # head
  /\ ProducerSizeOf(loc["producer"].h, loc["producer"].t, size) > ConsumerSize
  /\ FilledOf(loc["producer"].h, loc["producer"].t, size)
  /\ ~filled
  /\ Len(popped) >= 1

\* C17: while the consumer holds a non-NULL reference from front() and has
\* not yet popped, the referenced slot is the one at head and keeps the value
\* seen through the reference, whatever the producer pushes meanwhile; the
\* pop that follows returns that value.
C17_FrontStable ==
  (/\ Live
   /\ ret.op = "front"
   /\ ret.val # NULL
   /\ ret.k = loc["consumer"].k) =>
    /\ tpc["consumer"] \in {"empty_head", "front_tail", "empty_tail",
                            "pop_load", "pop_move"} =>
         /\ head = ret.val
         /\ data[ret.val] = ret.at
         /\ ret.at = Oldest
    /\ tpc["consumer"] = "pop_store" => loc["consumer"].r = ret.at

\* C17 witness: the consumer has read the slot in a pop that follows a
\* non-NULL front(), two pushes having been made in between.
C17_Witness ==
  /\ Live
  /\ ret.op = "front"
  /\ ret.val # NULL
  /\ ret.k = loc["consumer"].k
  /\ tpc["consumer"] = "pop_store"
  /\ loc["consumer"].r = ret.at
  /\ Len(pushed) >= ret.n + 2
  /\ Len(popped) >= 1

====
